---- MODULE Spec2Model ----
(***************************************************************************)
(* PicoFlare agent execution core: the ProcessMessage tool-calling loop,   *)
(* the per-chat session transcript with its trim policy, tool dispatch     *)
(* (ExecuteTool) and the subagent delegation tools.                        *)
(*                                                                         *)
(* Texts (message contents, replies, error values) are sequences of string *)
(* tokens: the empty string is <<>>, fmt.Sprintf("Error: %v", err) is      *)
(* <<"Error: ">> \o err.                                                   *)
(***************************************************************************)
EXTENDS Integers, Sequences, FiniteSets, TLC

(* ---- program constants ------------------------------------------------ *)
maxIterations == 24
maxSessionMessages == 50
refreshEvery == 15

(* ---- bounds of the model ---------------------------------------------- *)
\* user turns of one chat in a session run
MaxTurns == 2
\* tool calls the oracle requests in one response
MaxCalls == 2
\* RefreshTools calls in a run
MaxToolRefreshes == 2
\* ForceRefreshSession calls in a run
MaxSessionRefreshes == 1
\* user turns of a long chat
MaxChatTurns == 40
\* user turns of a chat that is refreshed
MaxFrameTurns == 8
\* tasks recorded in a run of the tracker
MaxTasks == 3
\* tool-call rounds the oracle asks of one of two concurrent invocations
MaxRounds == 1
\* times the clock or the stored memory changes in a run
MaxTicks == 1
\* tokens of a shell command
MaxCmdLen == 5
\* chunks of ChunkBytes bytes in the content of a file
MaxChunks == 3

(* ---- texts ------------------------------------------------------------ *)
NoText == <<>>
TimeoutText == <<"Request timed out or was cancelled after ", "5m0s", ".">>
LimitNote == <<"(Reached iteration limit - I may need to continue)">>
UserText == <<"hello">>
Texts == {NoText, <<"txt">>}

ErrorText(err) == <<"Error: ">> \o err

CtxDeadlineErr == <<"context deadline exceeded">>
LLMErr == <<"LLM error: ", "upstream">>

(* ---- messages --------------------------------------------------------- *)
NoCalls == <<>>
NoID == 0

SystemMsg(prompt) ==
    [Role |-> "system", Content |-> prompt, ToolCalls |-> NoCalls, ToolCallID |-> NoID, Name |-> ""]

UserMsg(text) ==
    [Role |-> "user", Content |-> text, ToolCalls |-> NoCalls, ToolCallID |-> NoID, Name |-> ""]

AssistantMsg(content, calls) ==
    [Role |-> "assistant", Content |-> content, ToolCalls |-> calls, ToolCallID |-> NoID, Name |-> ""]

ToolMsg(content, id, name) ==
    [Role |-> "tool", Content |-> content, ToolCalls |-> NoCalls, ToolCallID |-> id, Name |-> name]

\* buildSystemPrompt renders the wall-clock time and the collaborators'
\* current summaries: every build may differ from the one before.
buildSystemPrompt(t) == <<"# PicoFlare", ToString(t)>>

(* ---- tool registry and dispatch --------------------------------------- *)
\* A Tool: its name and, for the workspace-scoped tools, the directory its
\* handler is bound to (NoRoot for the others).
NoRoot == <<>>
Tool(name, root) == [Name |-> name, Root |-> root]

\* a.Tools of the top-level loop: two representative handlers, one that
\* succeeds and one whose Execute returns an error.
Tools == <<Tool("echo", NoRoot), Tool("broken", NoRoot)>>


\* json.Unmarshal into map[string]interface{}
\* ToLLMDefs: the catalog sent to the oracle, one definition per tool
ToLLMDefs(tools) == [k \in 1..Len(tools) |-> tools[k].Name]

\* a dynamic tool of the registry in R2, and what LoadTools may deliver on a
\* reload: the tool, or nothing (the load failed, or the tool is disabled)
DynTool == Tool("dyn_x", NoRoot)
DynLoads == {<<DynTool>>, <<>>}

\* strings.HasPrefix(t.Name, "dyn_") || strings.HasPrefix(t.Name, "worker_")
HasDynPrefix(t) == t.Name \in {"dyn_x"}
IsStatic(t) == ~HasDynPrefix(t)

ValidJSON(argsJSON) == argsJSON = "{}"

\* t.Execute(ctx, args)
Execute(name) ==
    IF name # "broken"
    THEN [result |-> <<"42">>, err |-> NoText]
    ELSE [result |-> NoText, err |-> <<"handler failed">>]

\* mutant: arguments that do not decode are handed to the handler as they are
ExecuteToolFrom_noParseCheck(tools, k, name, argsJSON) ==
    IF \A j \in k..Len(tools) : tools[j].Name # name
    THEN [result |-> NoText, err |-> <<"unknown tool: ", name>>]
    ELSE Execute(name)

RECURSIVE ExecuteToolFrom(_, _, _, _)
ExecuteToolFrom(tools, k, name, argsJSON) ==
    IF k > Len(tools)
    THEN [result |-> NoText, err |-> <<"unknown tool: ", name>>]
    ELSE IF tools[k].Name = name
         THEN LET args == IF argsJSON = "" THEN "{}" ELSE argsJSON
              IN  IF ~ValidJSON(args)
                  THEN [result |-> NoText, err |-> <<"parse tool args: ", "invalid character">>]
                  ELSE Execute(name)
         ELSE ExecuteToolFrom(tools, k + 1, name, argsJSON)

ExecuteTool(tools, name, argsJSON) == ExecuteToolFrom(tools, 1, name, argsJSON)

(* ---- session trim ----------------------------------------------------- *)
\* mutant: keeps the most recent maxSessionMessages+1 entries, position 0 not
\* singled out
trimSession_dropsFirst(m) ==
    IF Len(m) <= maxSessionMessages + 1
    THEN m
    ELSE SubSeq(m, Len(m) - maxSessionMessages, Len(m))

trimSession(m) ==
    IF Len(m) <= maxSessionMessages + 1
    THEN m
    ELSE <<m[1]>> \o SubSeq(m, Len(m) - maxSessionMessages + 1, Len(m))

(* ---- the oracle ------------------------------------------------------- *)
\* The oracle is a black box.  A run fixes the shape of what it answers:
\* the tool-call request it issues whenever it asks for tools (names and
\* argument strings, ids are fresh on every response), the text that comes
\* with a request, and the text of a final answer.  When it asks for tools,
\* when it answers, and when the call fails stay free on every call.
\* A call is a name and an argument string: "nosuch" is in no registry, "" is
\* the empty argument string, "{bad" does not decode.
CallKinds ==
    {<<"echo", "{}">>, <<"echo", "">>, <<"echo", "{bad">>,
     <<"broken", "{}">>, <<"nosuch", "{}">>, <<"nosuch", "{bad">>}
GoodKind == <<"echo", "{}">>

RECURSIVE SeqsUpTo(_, _)
SeqsUpTo(S, n) ==
    IF n = 0 THEN {<<>>}
    ELSE LET shorter == SeqsUpTo(S, n - 1)
         IN  shorter \cup {Append(s, x) : s \in {t \in shorter : Len(t) = n - 1}, x \in S}

Templates(S) == SeqsUpTo(S, MaxCalls) \ {<<>>}

TurnScripts == [calls : Templates(CallKinds), text : Texts, final : Texts]
\* in a chat of several turns: the request of MaxCalls well-formed calls
SessionScripts ==
    [calls : {t \in Templates({GoodKind}) : Len(t) = MaxCalls}, text : {<<"txt">>}, final : {<<"answer">>}]

\* result.ToolCalls of one response: the template with ids first, first+1, ...
IssueCalls(template, first) ==
    [k \in 1..Len(template) |->
        [ID |-> first + k - 1, Name |-> template[k][1], Arguments |-> template[k][2]]]

(* ---- delegation: constants and pure parts ----------------------------- *)
subagentMaxIterations == 20
\* seconds
subagentSyncTimeoutDefault == 180
subagentSyncTimeoutMax == 600
spawnTimeoutDefault == 300

\* segments of a requested sub-workspace path
MaxSegs == 2

\* Paths are sequences of segments.  The main workspace, when configured, is
\* /w; "" is <<>>.
NoWorkspace == <<>>
MainAbs == <<"w">>
Segs == {"a", "..", "..x"}
Paths == SeqsUpTo(Segs, MaxSegs) \ {<<>>}

\* filepath.Clean of a rooted path: "." is dropped, ".." removes the element
\* before it and is dropped at the root
RECURSIVE CleanFrom(_, _)
CleanFrom(acc, rest) ==
    IF rest = <<>> THEN acc
    ELSE IF Head(rest) = "." THEN CleanFrom(acc, Tail(rest))
    ELSE IF Head(rest) = ".."
         THEN CleanFrom(IF acc = <<>> THEN acc ELSE SubSeq(acc, 1, Len(acc) - 1), Tail(rest))
         ELSE CleanFrom(Append(acc, Head(rest)), Tail(rest))

Clean(path) == CleanFrom(<<>>, path)

RECURSIVE CommonLen(_, _)
CommonLen(a, b) ==
    IF a = <<>> \/ b = <<>> \/ Head(a) # Head(b) THEN 0
    ELSE 1 + CommonLen(Tail(a), Tail(b))

\* filepath.Rel of two clean rooted paths; <<>> is "."
Rel(base, targ) ==
    LET c == CommonLen(base, targ)
    IN  [k \in 1..(Len(base) - c) |-> ".."] \o SubSeq(targ, c + 1, Len(targ))

\* strings.HasPrefix(rel, "..")
HasDotDotPrefix(rel) == rel # <<>> /\ rel[1] \in {"..", "..x"}

resolveSubWorkspace(main, subPath) ==
    IF main = NoWorkspace
    THEN [path |-> <<>>, err |-> <<"main workspace not configured">>]
    ELSE LET subAbs == Clean(main \o subPath)
             rel == Rel(main, subAbs)
         IN  IF HasDotDotPrefix(rel)
             THEN [path |-> <<>>, err |-> <<"workspace ">> \o subPath \o <<" is outside main workspace">>]
             ELSE [path |-> subAbs, err |-> NoText]

workspaceToolNames == {"read_file", "write_file", "edit_file", "list_files", "shell"}

BuildCodeModeTools(workspace) ==
    <<Tool("read_file", workspace), Tool("write_file", workspace), Tool("edit_file", workspace),
      Tool("list_files", workspace), Tool("shell", workspace), Tool("self_rebuild", workspace),
      Tool("create_skill", workspace)>>

IsSubTool(t) == t.Name # "self_rebuild" /\ t.Name # "create_skill"
BuildWorkspaceSubTools(workspace) == SelectSeq(BuildCodeModeTools(workspace), IsSubTool)

\* the dynamic tools loaded from the registry in R2; their names are whatever
\* the stored definitions say, here one of them is called subagent
DynamicTools == <<Tool("dyn_lookup", NoRoot), Tool("subagent", NoRoot)>>

\* the tools handed to BuildSubagentTools by New: the static tools (one
\* stands for them), with a workspace the Code Mode tools and the MCP creator,
\* and the dynamic tools
ParentTools(main) ==
    <<Tool("http_request", NoRoot)>> \o
    (IF main # NoWorkspace
     THEN BuildCodeModeTools(main) \o <<Tool("create_mcp_server", NoRoot)>>
     ELSE <<>>) \o
    DynamicTools

\* mutant: only spawn is filtered out
NotDelegation_spawnOnly(t) == t.Name # "spawn"

NotDelegation(t) == t.Name # "spawn" /\ t.Name # "subagent"
NotDelegationNorWorkspace(t) == NotDelegation(t) /\ t.Name \notin workspaceToolNames

\* RunSubagentLoop lines 138-161
BuildSubTools(tools, main, workspace) ==
    IF workspace # NoWorkspace /\ main # NoWorkspace
    THEN LET r == resolveSubWorkspace(main, workspace)
         IN  IF r.err # NoText
             THEN [tools |-> <<>>, err |-> r.err]
             ELSE [tools |-> SelectSeq(tools, NotDelegationNorWorkspace)
                                \o BuildWorkspaceSubTools(r.path),
                   err |-> NoText]
    ELSE [tools |-> SelectSeq(tools, NotDelegation), err |-> NoText]

\* The timeout argument is a JSON number of seconds.  A request is absent, or
\* given as a count of half seconds: 201 is 100.5 s.
NoTimeout == [given |-> FALSE, halves |-> 0]
TimeoutOf(halves) == [given |-> TRUE, halves |-> halves]

\* time.Duration(t) * time.Second for a float64 t of seconds: the conversion
\* to int64 drops the fraction (toward zero); the result is in seconds here
DurationSeconds(halves) == IF halves >= 0 THEN halves \div 2 ELSE -((-halves) \div 2)

Min2(a, b) == IF a <= b THEN a ELSE b

\* RunSubagentLoop lines 130-135
ClampTimeout(t) ==
    IF t <= 0 THEN subagentSyncTimeoutDefault
    ELSE IF t > subagentSyncTimeoutMax THEN subagentSyncTimeoutMax ELSE t

\* subagent Execute lines 262-265
SubagentTimeout(req) ==
    IF req.given /\ req.halves > 0 THEN DurationSeconds(req.halves) ELSE 0

\* spawn Execute lines 314-320
SpawnTimeout(req) ==
    IF req.given /\ req.halves > 0
    THEN LET t == DurationSeconds(req.halves)
         IN  IF t > subagentSyncTimeoutMax THEN subagentSyncTimeoutMax ELSE t
    ELSE spawnTimeoutDefault

\* strings.TrimSpace on a text whose white space is in tokens of its own
RECURSIVE TrimLeft(_)
TrimLeft(t) == IF t # <<>> /\ Head(t) = " " THEN TrimLeft(Tail(t)) ELSE t
RECURSIVE TrimRight(_)
TrimRight(t) ==
    IF t # <<>> /\ t[Len(t)] = " " THEN TrimRight(SubSeq(t, 1, Len(t) - 1)) ELSE t
TrimSpace(t) == TrimRight(TrimLeft(t))

SubagentPrompt(workspace) ==
    <<"You are a subagent.">> \o
    (IF workspace # NoWorkspace
     THEN <<"You are working in the folder: ">> \o workspace
     ELSE <<>>)

\* what the caller of a delegation tool may send
TimeoutArgs == {NoTimeout} \cup {TimeoutOf(h) : h \in {-2, 1, 200, 201, 1400}}
AllDelegArgs ==
    [task : {NoText, <<"count lines">>}, label : {NoText, <<"job">>},
     workspace : {NoWorkspace} \cup Paths, timeout : TimeoutArgs]
\* label and timeout vary where no sub-workspace is asked for, the
\* sub-workspace where they are absent
DelegArgs ==
    {a \in AllDelegArgs : a.workspace = NoWorkspace \/ (a.label = NoText /\ a.timeout = NoTimeout)}
\* the chat id carried by the context of the call; 0 stands for a context without one
ChatIDs == {0, 7}

\* what the oracle answers to a child loop
ChildFinals == {<<"done">>, <<" ", "done", " ">>}
ChildRequest == <<<<"read_file", "{}">>>>
ChildDelegationRequest == <<<<"subagent", "{}">>, <<"spawn", "{}">>>>
DelegScripts ==
    [calls : {ChildRequest, ChildDelegationRequest}, text : {<<"txt">>}, final : {<<"answer">>}]

VARIABLES
    Messages,     \* sess.Messages of the chat; <<>> while a.sessions has no entry
    preTrim,      \* argument of the turn's trimSession call, until the loop is entered
    clock,        \* number of buildSystemPrompt calls so far
    pc,           \* position of ProcessMessage: idle, check, oracle, tools, done
    i,            \* loop counter of ProcessMessage
    result,       \* result of the last successful oracle call
    pending,      \* tool calls of result not yet executed
    finalReply,   \* local finalReply
    reply,        \* value returned by ProcessMessage
    ret,          \* return statement taken: none, timeout, error, final, limit
    lastErr,      \* err of the last oracle call of this turn, <<>> when nil
    expired,      \* ctx.Done() is closed
    oracleCalls,  \* oracle calls made in this turn
    nextCallID,   \* next id the oracle hands out
    script,       \* shape of the oracle's answers in this run
    turnsLeft,    \* user turns still to come
    sinceRefresh, \* turns in a row, up to the last started, that did not build position 0
    aTools,       \* a.Tools
    toolDefs,     \* a.toolDefs
    offered,      \* the catalog passed to the oracle call of this iteration
    toolRefreshes, \* RefreshTools calls so far
    msgs,         \* the list passed to the outstanding oracle call
    frpc,         \* position of ForceRefreshSession: idle, build
    frPrompt,     \* its local newPrompt
    sessRefreshes, \* ForceRefreshSession calls so far
    \* delegation (subagent and spawn tools)
    mainWorkspace, \* mainWorkspace given to BuildSubagentTools, <<>> when ""
    dtool,        \* delegation tool called: none, subagent, spawn
    dargs,        \* its arguments
    callRes,      \* what the tool call returned
    cid,          \* chat id captured by spawn, 0 when none
    taskID,       \* tracker id captured by spawn, 0 when none
    bgTimeout,    \* timeout of the spawn goroutine's bgCtx in seconds, 0 when none
    ctimeout,     \* timeout of RunSubagentLoop in seconds: the parameter, then the clamped value
    cpc,          \* position of the child loop: none, setup, check, oracle, tools, done, closed
    subTools,     \* the child's registry, <<>> while nil
    cmessages,    \* the child's transcript
    ci,           \* the child's loop counter
    cresult,      \* result of the child's last successful oracle call
    cpending,     \* tool calls of cresult not yet executed
    cexpired,     \* the child's ctx.Done() is closed
    coracleCalls, \* oracle calls made by the child
    cret,         \* what RunSubagentLoop returned
    tasks,        \* SubagentTracker.tasks, indexed by the number in the id
    nextID,       \* SubagentTracker.nextID
    callbacks,    \* calls of onComplete so far
    listed,       \* the last ListTasks call: its chatID, what it returned, the tasks then
    \* invocations of ProcessMessage that run at the same time
    sessions,     \* a.sessions: the Messages of each chat, <<>> while it has no entry
    mu,           \* holder of a.mu, 0 when free
    ppc,          \* position of each invocation: none, lock, build, check, oracle, tools, done
    pchat,        \* its chatID
    pit,          \* its loop counter
    presult,      \* result of its last successful oracle call
    ppending,     \* tool calls of presult not yet executed
    pfinal,       \* its finalReply
    psnap,        \* the list passed to its outstanding oracle call
    preply,       \* the value it returned
    pret,         \* the return statement it took
    pexpired,     \* its ctx.Done() is closed
    now,          \* what buildSystemPrompt reads: the time and the stored memory
    callBase,     \* the ids the oracle gives the calls of each invocation start after it
    \* the workspace tools
    links,        \* whether the workspace holds the symbolic link ln to a directory outside
    files,        \* the files on disk: records of real path and data
    objects,      \* the objects of the R2 bucket: records of key and data
    r2,           \* whether BuildCodeModeTools was given an R2 client and a bucket
    last          \* the last call of a workspace tool and what it returned

mvars == <<Messages, preTrim, clock, pc, i, result, pending, finalReply, reply, ret,
           lastErr, expired, oracleCalls, script, turnsLeft>>

dvars == <<mainWorkspace, dtool, dargs, callRes, cid, taskID, bgTimeout, ctimeout, cpc,
           subTools, cmessages, ci, cresult, cpending, cexpired, coracleCalls, cret,
           tasks, nextID, callbacks>>

\* registry of the agent, and ForceRefreshSession
tvars == <<aTools, toolDefs, toolRefreshes>>
fvars == <<frpc, frPrompt, sessRefreshes>>

\* the tracker's queries, concurrent invocations, the workspace tools
qvars == <<listed>>
avars == <<sessions, mu, ppc, pchat, pit, presult, ppending, pfinal, psnap, preply, pret, pexpired,
           now, callBase>>
wvars == <<links, files, objects, r2, last>>
xvars == <<qvars, avars, wvars>>

\* the variables of one invocation of ProcessMessage on one chat
svars == <<mvars, nextCallID, sinceRefresh, offered, msgs, tvars, fvars>>

vars == <<mvars, nextCallID, dvars, sinceRefresh, offered, msgs, tvars, fvars, xvars>>

NoResult == [Content |-> NoText, ToolCalls |-> NoCalls]

NoArgs == [task |-> NoText, label |-> NoText, workspace |-> <<>>, timeout |-> NoTimeout]
NoCallRes == [returned |-> FALSE, result |-> NoText, err |-> NoText]
NoRet == [res |-> NoText, err |-> NoText]

\* no delegation tool call made yet
InitNoDelegation ==
    /\ dtool = "none"
    /\ dargs = NoArgs
    /\ callRes = NoCallRes
    /\ cid = 0
    /\ taskID = 0
    /\ bgTimeout = 0
    /\ ctimeout = 0
    /\ cpc = "none"
    /\ subTools = <<>>
    /\ cmessages = <<>>
    /\ ci = 0
    /\ cresult = NoResult
    /\ cpending = <<>>
    /\ cexpired = FALSE
    /\ coracleCalls = 0
    /\ cret = NoRet
    /\ tasks = <<>>
    /\ nextID = 1
    /\ callbacks = <<>>

\* msgs := make(...); copy(msgs, sess.Messages), lines 384-385: a list of its
\* own.  shared tells whether the list is the session's array itself, so that a
\* write into the session's array shows in it.
NoMsgs == [shared |-> FALSE, list |-> <<>>]

\* mutant: the session's slice is passed on as it is
Snapshot_alias(m) == [shared |-> TRUE, list |-> m]

Snapshot(m) == [shared |-> FALSE, list |-> m]

\* New, lines 275-283: the registry and its catalog
InitTools(tools) ==
    /\ aTools = tools
    /\ toolDefs = ToLLMDefs(tools)

InitAgent ==
    /\ Messages = <<>>
    /\ preTrim = <<>>
    /\ clock = 0
    /\ pc = "idle"
    /\ i = 0
    /\ result = NoResult
    /\ pending = <<>>
    /\ finalReply = NoText
    /\ reply = NoText
    /\ ret = "none"
    /\ lastErr = NoText
    /\ expired = FALSE
    /\ oracleCalls = 0
    /\ nextCallID = 1
    /\ sinceRefresh = 0
    /\ offered = <<>>
    /\ msgs = NoMsgs
    /\ toolRefreshes = 0
    /\ frpc = "idle"
    /\ frPrompt = NoText

\* no ListTasks call made yet
NoListing == [called |-> FALSE, chatID |-> 0, out |-> {}, seen |-> {}]

\* the goroutines that run ProcessMessage at the same time, and their chats
Procs == {1, 2}
ConcChats == {7, 9}

\* no invocation of ProcessMessage next to the one of pc
InitNoConc ==
    /\ sessions = [c \in ConcChats |-> <<>>]
    /\ mu = 0
    /\ ppc = [p \in Procs |-> "none"]
    /\ pchat = [p \in Procs |-> 0]
    /\ pit = [p \in Procs |-> 0]
    /\ presult = [p \in Procs |-> NoResult]
    /\ ppending = [p \in Procs |-> <<>>]
    /\ pfinal = [p \in Procs |-> NoText]
    /\ psnap = [p \in Procs |-> <<>>]
    /\ preply = [p \in Procs |-> NoText]
    /\ pret = [p \in Procs |-> "none"]
    /\ pexpired = [p \in Procs |-> FALSE]
    /\ now = 0
    /\ callBase = [p \in Procs |-> 0]

\* no workspace tool called yet, an empty workspace, no R2 client
NoCall == [tool |-> "none", path |-> <<>>, content |-> <<>>, command |-> <<>>, agent |-> "",
           result |-> <<>>, err |-> <<>>, started |-> FALSE, dir |-> <<>>]
InitNoFiles ==
    /\ links = FALSE
    /\ files = {}
    /\ objects = {}
    /\ r2 = FALSE
    /\ last = NoCall

InitQuiet ==
    /\ listed = NoListing
    /\ InitNoConc
    /\ InitNoFiles

InitCommon ==
    /\ InitAgent
    /\ sessRefreshes = 0
    /\ InitQuiet

\* a chat of up to MaxTurns turns
Init ==
    /\ InitCommon
    /\ script \in SessionScripts
    /\ turnsLeft = MaxTurns
    /\ InitTools(Tools)
    /\ mainWorkspace = MainAbs
    /\ InitNoDelegation

\* one turn on a fresh chat, any request shape
InitTurn ==
    /\ InitCommon
    /\ script \in TurnScripts
    /\ turnsLeft = 1
    /\ InitTools(Tools)
    /\ mainWorkspace = MainAbs
    /\ InitNoDelegation

(* ---- ProcessMessage --------------------------------------------------- *)
\* lines 340-373: take the lock, create the session on first use, refresh
\* position 0 every refreshEvery messages, append the user message, trim.
Start ==
    /\ UNCHANGED <<dvars, xvars>>
    /\ pc \in {"idle", "done"}
    /\ turnsLeft > 0
    /\ LET fresh == Messages = <<>>
           m0 == IF fresh THEN <<SystemMsg(buildSystemPrompt(clock))>> ELSE Messages
           c0 == IF fresh THEN clock + 1 ELSE clock
           refresh == Len(m0) > 1 /\ Len(m0) % refreshEvery = 0
           m1 == IF refresh THEN [m0 EXCEPT ![1] = SystemMsg(buildSystemPrompt(c0))] ELSE m0
           c1 == IF refresh THEN c0 + 1 ELSE c0
           m2 == Append(m1, UserMsg(UserText))
       IN  /\ preTrim' = m2
           /\ Messages' = trimSession(m2)
           /\ clock' = c1
           /\ sinceRefresh' = IF fresh \/ refresh THEN 0 ELSE sinceRefresh + 1
    /\ turnsLeft' = turnsLeft - 1
    /\ pc' = "check"
    /\ i' = 0
    /\ result' = NoResult
    /\ pending' = <<>>
    /\ finalReply' = NoText
    /\ reply' = NoText
    /\ ret' = "none"
    /\ lastErr' = NoText
    /\ expired' = FALSE
    /\ oracleCalls' = 0
    /\ UNCHANGED <<nextCallID, script, offered, msgs, tvars, fvars>>

\* context.WithTimeout(parentCtx, agentTimeout): the deadline passes
Expire ==
    /\ UNCHANGED <<dvars, xvars>>
    /\ pc \in {"check", "oracle", "tools"}
    /\ ~expired
    /\ expired' = TRUE
    /\ UNCHANGED <<Messages, preTrim, clock, pc, i, result, pending, finalReply, reply, ret,
                   lastErr, oracleCalls, nextCallID, script, turnsLeft, sinceRefresh,
                   offered, msgs, tvars, fvars>>

Return(text, how) ==
    /\ pc' = "done"
    /\ reply' = text
    /\ ret' = how

\* lines 375-388: loop condition, ctx.Done() check, snapshot, oracle call
LoopHead ==
    /\ UNCHANGED <<dvars, xvars>>
    /\ pc = "check"
    /\ IF i >= maxIterations
       THEN /\ Return(finalReply, "limit")
            /\ UNCHANGED oracleCalls
       ELSE IF expired
            THEN /\ Return(TimeoutText, "timeout")
                 /\ UNCHANGED oracleCalls
            ELSE /\ pc' = "oracle"
                 /\ oracleCalls' = oracleCalls + 1
                 /\ UNCHANGED <<reply, ret>>
    /\ IF i < maxIterations /\ ~expired
       THEN msgs' = Snapshot(Messages) /\ offered' = toolDefs
       ELSE UNCHANGED <<msgs, offered>>
    /\ preTrim' = <<>>
    /\ UNCHANGED <<Messages, clock, i, result, pending, finalReply, lastErr,
                   expired, nextCallID, script, turnsLeft, sinceRefresh, tvars, fvars>>

\* mutant: a failed oracle call is tried again
OracleError_retry ==
    /\ UNCHANGED <<dvars, xvars>>
    /\ pc = "oracle"
    /\ lastErr' = IF expired THEN CtxDeadlineErr ELSE LLMErr
    /\ pc' = "check"
    /\ msgs' = NoMsgs
    /\ UNCHANGED <<Messages, preTrim, clock, i, result, pending, finalReply, reply, ret,
                   expired, oracleCalls, nextCallID, script, turnsLeft, sinceRefresh,
                   offered, tvars, fvars>>

\* lines 388-392: the oracle call fails; with the deadline passed the HTTP
\* request bound to ctx fails with the context's error
OracleError ==
    /\ UNCHANGED <<dvars, xvars>>
    /\ pc = "oracle"
    /\ LET err == IF expired THEN CtxDeadlineErr ELSE LLMErr
       IN  /\ lastErr' = err
           /\ Return(ErrorText(err), "error")
    /\ msgs' = NoMsgs
    /\ UNCHANGED <<Messages, preTrim, clock, i, result, pending, finalReply, expired,
                   oracleCalls, nextCallID, script, turnsLeft, sinceRefresh, offered,
                   tvars, fvars>>

\* mutant: the final answer is returned but not recorded
OracleFinal_notRecorded ==
    /\ UNCHANGED <<dvars, xvars>>
    /\ pc = "oracle"
    /\ ~expired
    /\ LET res == [Content |-> script.final, ToolCalls |-> NoCalls]
       IN  /\ result' = res
           /\ finalReply' = res.Content
           /\ Return(res.Content, "final")
    /\ msgs' = NoMsgs
    /\ UNCHANGED <<Messages, preTrim, clock, i, pending, lastErr, expired, oracleCalls, nextCallID,
                   script, turnsLeft, sinceRefresh, offered, tvars, fvars>>


\* lines 399-406: no tool calls, final answer
OracleFinal ==
    /\ UNCHANGED <<dvars, xvars>>
    /\ pc = "oracle"
    /\ ~expired
    /\ LET res == [Content |-> script.final, ToolCalls |-> NoCalls]
       IN  /\ result' = res
           /\ finalReply' = res.Content
           /\ Messages' = Append(Messages, AssistantMsg(res.Content, NoCalls))
           /\ Return(res.Content, "final")
    /\ msgs' = NoMsgs
    /\ UNCHANGED <<preTrim, clock, i, pending, lastErr, expired, oracleCalls, nextCallID,
                   script, turnsLeft, sinceRefresh, offered, tvars, fvars>>

\* lines 408-416: the oracle requests tools
OracleTools ==
    /\ UNCHANGED <<dvars, xvars>>
    /\ pc = "oracle"
    /\ ~expired
    /\ LET res == [Content |-> script.text, ToolCalls |-> IssueCalls(script.calls, nextCallID)]
       IN  /\ result' = res
           /\ Messages' = Append(Messages, AssistantMsg(res.Content, res.ToolCalls))
           /\ pending' = res.ToolCalls
           /\ nextCallID' = nextCallID + Len(res.ToolCalls)
    /\ pc' = "tools"
    /\ msgs' = NoMsgs
    /\ UNCHANGED <<preTrim, clock, i, finalReply, reply, ret, lastErr, expired, oracleCalls,
                   script, turnsLeft, sinceRefresh, offered, tvars, fvars>>

\* mutant: no fallback text when the last response carried none
AfterTools_noFallback(fr) ==
    IF i = maxIterations - 1 THEN result.Content ELSE fr

\* lines 445-450, run after the last tool call of an iteration
AfterTools(fr) ==
    IF i = maxIterations - 1
    THEN IF result.Content = NoText THEN LimitNote ELSE result.Content
    ELSE fr

\* mutant: the result is recorded without its correlation id
ToolResultMsg_noID(tc) ==
    LET r == ExecuteTool(aTools, tc.Name, tc.Arguments)
        toolResult == IF r.err # NoText THEN ErrorText(r.err) ELSE r.result
    IN  ToolMsg(toolResult, NoID, tc.Name)

\* the message appended for one tool call, lines 426-439
ToolResultMsg(tc) ==
    LET r == ExecuteTool(aTools, tc.Name, tc.Arguments)
        toolResult == IF r.err # NoText THEN ErrorText(r.err) ELSE r.result
    IN  ToolMsg(toolResult, tc.ID, tc.Name)

\* one pass of `for _, tc := range result.ToolCalls`, lines 418-443
ExecTool ==
    /\ UNCHANGED <<dvars, xvars>>
    /\ pc = "tools"
    /\ pending # <<>>
    /\ LET tc == Head(pending)
       IN  Messages' = Append(Messages, ToolResultMsg(tc))
    /\ pending' = Tail(pending)
    /\ IF Tail(pending) = <<>>
       THEN /\ finalReply' = AfterTools(finalReply)
            /\ i' = i + 1
            /\ pc' = "check"
       ELSE UNCHANGED <<finalReply, i, pc>>
    /\ UNCHANGED <<preTrim, clock, result, reply, ret, lastErr, expired, oracleCalls,
                   nextCallID, script, turnsLeft, sinceRefresh, offered, msgs, tvars, fvars>>

(* ---- subagent and spawn tools ----------------------------------------- *)
\* subagent Execute, lines 253-267, up to the call of RunSubagentLoop
SubagentExecute(args) ==
    /\ dtool = "none"
    /\ dtool' = "subagent"
    /\ dargs' = args
    /\ IF args.task = NoText
       THEN /\ callRes' = [returned |-> TRUE, result |-> NoText, err |-> <<"task is required">>]
            /\ UNCHANGED <<ctimeout, cpc>>
       ELSE /\ ctimeout' = SubagentTimeout(args.timeout)
            /\ cpc' = "setup"
            /\ UNCHANGED callRes
    /\ UNCHANGED <<xvars, mvars, sinceRefresh, offered, msgs, tvars, fvars, nextCallID, mainWorkspace, cid, taskID, bgTimeout, subTools, cmessages,
                   ci, cresult, cpending, cexpired, coracleCalls, cret, tasks, nextID,
                   callbacks>>

\* spawn Execute, lines 305-363: the task is recorded, the goroutine is
\* started and the acknowledgement is returned
SpawnExecute(args, chatID) ==
    /\ dtool = "none"
    /\ dtool' = "spawn"
    /\ dargs' = args
    /\ IF args.task = NoText
       THEN /\ callRes' = [returned |-> TRUE, result |-> NoText, err |-> <<"task is required">>]
            /\ UNCHANGED <<cid, taskID, bgTimeout, ctimeout, cpc, tasks, nextID>>
       ELSE IF chatID = 0
       THEN /\ callRes' = [returned |-> TRUE, result |-> NoText,
                           err |-> <<"spawn requires chat context">>]
            /\ UNCHANGED <<cid, taskID, bgTimeout, ctimeout, cpc, tasks, nextID>>
       ELSE /\ bgTimeout' = SpawnTimeout(args.timeout)
            /\ taskID' = nextID
            /\ nextID' = nextID + 1
            /\ tasks' = Append(tasks, [ID |-> nextID, Label |-> args.label, Task |-> args.task,
                                        ChatID |-> chatID, Status |-> "running"])
            /\ cid' = chatID
            /\ ctimeout' = 0
            /\ cpc' = "setup"
            /\ callRes' = [returned |-> TRUE,
                           result |-> IF args.label # NoText
                                      THEN <<"Spawned subagent '">> \o args.label
                                               \o <<"' for task. Will report when done.">>
                                      ELSE <<"Spawned subagent. Will report when done.">>,
                           err |-> NoText]
    /\ UNCHANGED <<xvars, mvars, sinceRefresh, offered, msgs, tvars, fvars, nextCallID, mainWorkspace, subTools, cmessages, ci, cresult, cpending,
                   cexpired, coracleCalls, cret, callbacks>>

\* the deadline of a spawned child loop's context, in seconds from the start
\* of the goroutine: the context of RunSubagentLoop (ctimeout) is derived
\* from bgCtx (bgTimeout) and ends with the earlier of the two
SpawnChildDeadline == Min2(bgTimeout, ctimeout)

\* mutant: the result of the child loop is dropped and its caller never resumes
ChildReturn_lost(res, err) ==
    /\ cret' = [res |-> res, err |-> err]
    /\ cpc' = "lost"


ChildReturn(res, err) ==
    /\ cret' = [res |-> res, err |-> err]
    /\ cpc' = "done"

\* RunSubagentLoop lines 130-174
ChildSetup ==
    /\ cpc = "setup"
    /\ ctimeout' = ClampTimeout(ctimeout)
    /\ LET built == BuildSubTools(ParentTools(mainWorkspace), mainWorkspace, dargs.workspace)
       IN  IF built.err # NoText
           THEN /\ ChildReturn(NoText, built.err)
                /\ UNCHANGED <<subTools, cmessages>>
           ELSE /\ subTools' = built.tools
                /\ cmessages' = <<SystemMsg(SubagentPrompt(dargs.workspace)), UserMsg(dargs.task)>>
                /\ cpc' = "check"
                /\ UNCHANGED cret
    /\ UNCHANGED <<xvars, mvars, sinceRefresh, offered, msgs, tvars, fvars, nextCallID, mainWorkspace, dtool, dargs, callRes, cid, taskID,
                   bgTimeout, ci, cresult, cpending, cexpired, coracleCalls, tasks, nextID,
                   callbacks>>

\* the deadline of the child's context passes
ChildExpire ==
    /\ cpc \in {"check", "oracle", "tools"}
    /\ ~cexpired
    /\ cexpired' = TRUE
    /\ UNCHANGED <<xvars, mvars, sinceRefresh, offered, msgs, tvars, fvars, nextCallID, mainWorkspace, dtool, dargs, callRes, cid, taskID,
                   bgTimeout, ctimeout, cpc, subTools, cmessages, ci, cresult, cpending,
                   coracleCalls, cret, tasks, nextID, callbacks>>

\* mutant: the loop stops one iteration early
ChildLoopHead_offByOne ==
    /\ cpc = "check"
    /\ IF ci >= subagentMaxIterations - 1
       THEN /\ ChildReturn(<<"(Subagent reached iteration limit)">>, NoText)
            /\ UNCHANGED coracleCalls
       ELSE IF cexpired
            THEN /\ ChildReturn(NoText, CtxDeadlineErr)
                 /\ UNCHANGED coracleCalls
            ELSE /\ cpc' = "oracle"
                 /\ coracleCalls' = coracleCalls + 1
                 /\ UNCHANGED cret
    /\ UNCHANGED <<xvars, mvars, sinceRefresh, offered, msgs, tvars, fvars, nextCallID, mainWorkspace, dtool, dargs, callRes, cid, taskID,
                   bgTimeout, ctimeout, subTools, cmessages, ci, cresult, cpending, cexpired,
                   tasks, nextID, callbacks>>

\* RunSubagentLoop lines 176-183 and 218
ChildLoopHead ==
    /\ cpc = "check"
    /\ IF ci >= subagentMaxIterations
       THEN /\ ChildReturn(<<"(Subagent reached iteration limit)">>, NoText)
            /\ UNCHANGED coracleCalls
       ELSE IF cexpired
            THEN /\ ChildReturn(NoText, CtxDeadlineErr)
                 /\ UNCHANGED coracleCalls
            ELSE /\ cpc' = "oracle"
                 /\ coracleCalls' = coracleCalls + 1
                 /\ UNCHANGED cret
    /\ UNCHANGED <<xvars, mvars, sinceRefresh, offered, msgs, tvars, fvars, nextCallID, mainWorkspace, dtool, dargs, callRes, cid, taskID,
                   bgTimeout, ctimeout, subTools, cmessages, ci, cresult, cpending, cexpired,
                   tasks, nextID, callbacks>>

\* lines 183-186
ChildOracleError ==
    /\ cpc = "oracle"
    /\ ChildReturn(NoText, <<"subagent LLM error: ">> \o (IF cexpired THEN CtxDeadlineErr ELSE LLMErr))
    /\ UNCHANGED <<xvars, mvars, sinceRefresh, offered, msgs, tvars, fvars, nextCallID, mainWorkspace, dtool, dargs, callRes, cid, taskID,
                   bgTimeout, ctimeout, subTools, cmessages, ci, cresult, cpending, cexpired,
                   coracleCalls, tasks, nextID, callbacks>>

\* lines 188-190
ChildOracleFinal(content) ==
    /\ cpc = "oracle"
    /\ ~cexpired
    /\ cresult' = [Content |-> content, ToolCalls |-> NoCalls]
    /\ ChildReturn(TrimSpace(content), NoText)
    /\ UNCHANGED <<xvars, mvars, sinceRefresh, offered, msgs, tvars, fvars, nextCallID, mainWorkspace, dtool, dargs, callRes, cid, taskID,
                   bgTimeout, ctimeout, subTools, cmessages, ci, cpending, cexpired,
                   coracleCalls, tasks, nextID, callbacks>>

\* lines 192-197
ChildOracleTools ==
    /\ cpc = "oracle"
    /\ ~cexpired
    /\ LET res == [Content |-> <<"txt">>, ToolCalls |-> IssueCalls(script.calls, nextCallID)]
       IN  /\ cresult' = res
           /\ cmessages' = Append(cmessages, AssistantMsg(res.Content, res.ToolCalls))
           /\ cpending' = res.ToolCalls
           /\ nextCallID' = nextCallID + Len(res.ToolCalls)
    /\ cpc' = "tools"
    /\ UNCHANGED <<xvars, mvars, sinceRefresh, offered, msgs, tvars, fvars, mainWorkspace, dtool, dargs, callRes, cid, taskID, bgTimeout,
                   ctimeout, subTools, ci, cexpired, coracleCalls, cret, tasks, nextID,
                   callbacks>>

\* one pass of the loop of lines 199-215
ChildExecTool ==
    /\ cpc = "tools"
    /\ cpending # <<>>
    /\ LET tc == Head(cpending)
           r == ExecuteTool(subTools, tc.Name, tc.Arguments)
           toolResult == IF r.err # NoText THEN ErrorText(r.err) ELSE r.result
       IN  cmessages' = Append(cmessages, ToolMsg(toolResult, tc.ID, tc.Name))
    /\ cpending' = Tail(cpending)
    /\ IF Tail(cpending) = <<>>
       THEN ci' = ci + 1 /\ cpc' = "check"
       ELSE UNCHANGED <<ci, cpc>>
    /\ UNCHANGED <<xvars, mvars, sinceRefresh, offered, msgs, tvars, fvars, nextCallID, mainWorkspace, dtool, dargs, callRes, cid, taskID,
                   bgTimeout, ctimeout, subTools, cresult, cexpired, coracleCalls, cret, tasks,
                   nextID, callbacks>>

\* subagent Execute, lines 267-275: RunSubagentLoop has returned
SubagentReturn ==
    /\ dtool = "subagent"
    /\ cpc = "done"
    /\ cpc' = "closed"
    /\ callRes' =
          IF cret.err # NoText
          THEN [returned |-> TRUE, result |-> NoText, err |-> cret.err]
          ELSE [returned |-> TRUE,
                result |-> IF dargs.label # NoText
                           THEN <<"Subagent '">> \o dargs.label \o <<"' completed:">> \o cret.res
                           ELSE <<"Subagent completed:">> \o cret.res,
                err |-> NoText]
    /\ UNCHANGED <<xvars, mvars, sinceRefresh, offered, msgs, tvars, fvars, nextCallID, mainWorkspace, dtool, dargs, cid, taskID, bgTimeout,
                   ctimeout, subTools, cmessages, ci, cresult, cpending, cexpired,
                   coracleCalls, cret, tasks, nextID, callbacks>>

\* mutant: the status is written to a record that does not exist
RecordComplete_wrongID(t, id, status) ==
    IF id + 1 \in DOMAIN t THEN [t EXCEPT ![id + 1].Status = status] ELSE t

\* SubagentTracker.RecordComplete, lines 52-59
RecordComplete(t, id, status) ==
    IF id \in DOMAIN t THEN [t EXCEPT ![id].Status = status] ELSE t

\* mutant: a failed child is recorded but not reported
SpawnComplete_silentOnError ==
    /\ dtool = "spawn"
    /\ cpc = "done"
    /\ cpc' = "closed"
    /\ LET res0 == IF cret.err # NoText THEN ErrorText(cret.err) ELSE cret.res
           status == IF cret.err # NoText THEN "failed" ELSE "completed"
           res == IF dargs.label # NoText THEN <<"**">> \o dargs.label \o <<"**">> \o res0 ELSE res0
       IN  /\ tasks' = IF taskID # 0 THEN RecordComplete(tasks, taskID, status) ELSE tasks
           /\ callbacks' = IF cret.err # NoText
                            THEN callbacks
                            ELSE Append(callbacks, [chatID |-> cid,
                                                    result |-> <<"Subagent completed:">> \o res])
    /\ UNCHANGED <<xvars, mvars, sinceRefresh, offered, msgs, tvars, fvars, nextCallID, mainWorkspace, dtool, dargs, callRes, cid, taskID,
                   bgTimeout, ctimeout, subTools, cmessages, ci, cresult, cpending, cexpired,
                   coracleCalls, cret, nextID>>

\* the spawn goroutine after RunSubagentLoop, lines 346-357
SpawnComplete ==
    /\ dtool = "spawn"
    /\ cpc = "done"
    /\ cpc' = "closed"
    /\ LET res0 == IF cret.err # NoText THEN ErrorText(cret.err) ELSE cret.res
           status == IF cret.err # NoText THEN "failed" ELSE "completed"
           res == IF dargs.label # NoText THEN <<"**">> \o dargs.label \o <<"**">> \o res0 ELSE res0
       IN  /\ tasks' = IF taskID # 0 THEN RecordComplete(tasks, taskID, status) ELSE tasks
           /\ callbacks' = Append(callbacks, [chatID |-> cid,
                                              result |-> <<"Subagent completed:">> \o res])
    /\ UNCHANGED <<xvars, mvars, sinceRefresh, offered, msgs, tvars, fvars, nextCallID, mainWorkspace, dtool, dargs, callRes, cid, taskID,
                   bgTimeout, ctimeout, subTools, cmessages, ci, cresult, cpending, cexpired,
                   coracleCalls, cret, nextID>>

\* one delegation tool call, with or without a configured main workspace
InitDeleg ==
    /\ InitCommon
    /\ script \in DelegScripts
    /\ turnsLeft = 0
    /\ InitTools(Tools)
    /\ mainWorkspace \in {NoWorkspace, MainAbs}
    /\ InitNoDelegation

NextDeleg ==
    \/ \E args \in DelegArgs : SubagentExecute(args)
    \/ \E args \in DelegArgs, chatID \in ChatIDs : SpawnExecute(args, chatID)
    \/ ChildSetup
    \/ ChildExpire
    \/ ChildLoopHead
    \/ ChildOracleError
    \/ \E content \in ChildFinals : ChildOracleFinal(content)
    \/ ChildOracleTools
    \/ ChildExecTool
    \/ SubagentReturn
    \/ SpawnComplete


\* the steps of the goroutine that runs a child loop (the go statement of line
\* 341, or the caller of subagent): the Go scheduler runs every runnable
\* goroutine, an oracle call returns or fails (at the latest when the context's
\* deadline cuts it off) and a tool handler returns
ChildStep ==
    \/ ChildSetup
    \/ ChildLoopHead
    \/ ChildOracleError
    \/ \E content \in ChildFinals : ChildOracleFinal(content)
    \/ ChildOracleTools
    \/ ChildExecTool
    \/ SubagentReturn
    \/ SpawnComplete

SpecDelegFair == InitDeleg /\ [][NextDeleg]_vars /\ WF_vars(ChildStep)


(* ---- RefreshTools and ForceRefreshSession ------------------------------ *)
\* RefreshTools, lines 626-647: the dynamic tools are loaded again, then under
\* the lock the registry and its catalog are replaced.  ProcessMessage reads
\* a.toolDefs (line 388) and a.Tools (line 426) without the lock, each at the
\* moment it uses it, so it sees the value before or after this step.
RefreshTools(dynTools) ==
    /\ toolRefreshes < MaxToolRefreshes
    /\ toolRefreshes' = toolRefreshes + 1
    /\ aTools' = SelectSeq(aTools, IsStatic) \o dynTools
    /\ toolDefs' = ToLLMDefs(SelectSeq(aTools, IsStatic) \o dynTools)
    /\ UNCHANGED <<xvars, mvars, nextCallID, dvars, xvars, sinceRefresh, offered, msgs, fvars>>

\* ForceRefreshSession, lines 325-331: the session is looked up under the
\* lock, the prompt is built outside it
ForceRefreshRead ==
    /\ frpc = "idle"
    /\ sessRefreshes < MaxSessionRefreshes
    /\ Messages # <<>>
    /\ sessRefreshes' = sessRefreshes + 1
    /\ frPrompt' = buildSystemPrompt(clock)
    /\ clock' = clock + 1
    /\ frpc' = "build"
    /\ UNCHANGED <<Messages, preTrim, pc, i, result, pending, finalReply, reply, ret, lastErr,
                   expired, oracleCalls, script, turnsLeft, nextCallID, dvars, xvars, sinceRefresh,
                   offered, msgs, tvars>>

\* mutant: the session's list is replaced by the new prompt alone
ForceRefreshWrite_resets ==
    /\ frpc = "build"
    /\ Messages' = <<SystemMsg(frPrompt)>>
    /\ msgs' = IF msgs.shared /\ msgs.list # <<>>
               THEN [msgs EXCEPT !.list[1] = SystemMsg(frPrompt)]
               ELSE msgs
    /\ frpc' = "idle"
    /\ frPrompt' = NoText
    /\ UNCHANGED <<preTrim, clock, pc, i, result, pending, finalReply, reply, ret, lastErr,
                   expired, oracleCalls, script, turnsLeft, nextCallID, dvars, xvars, sinceRefresh,
                   offered, sessRefreshes, tvars>>


\* lines 332-334: position 0 of the session's array is overwritten under the lock
ForceRefreshWrite ==
    /\ frpc = "build"
    /\ Messages' = [Messages EXCEPT ![1] = SystemMsg(frPrompt)]
    /\ msgs' = IF msgs.shared /\ msgs.list # <<>>
               THEN [msgs EXCEPT !.list[1] = SystemMsg(frPrompt)]
               ELSE msgs
    /\ frpc' = "idle"
    /\ frPrompt' = NoText
    /\ UNCHANGED <<preTrim, clock, pc, i, result, pending, finalReply, reply, ret, lastErr,
                   expired, oracleCalls, script, turnsLeft, nextCallID, dvars, xvars, sinceRefresh,
                   offered, sessRefreshes, tvars>>


Next ==
    \/ Start
    \/ Expire
    \/ LoopHead
    \/ OracleError
    \/ OracleFinal
    \/ OracleTools
    \/ ExecTool

Spec == Init /\ [][Next]_vars
SpecTurn == InitTurn /\ [][Next]_vars
SpecDeleg == InitDeleg /\ [][NextDeleg]_vars

\* one turn of an agent with a dynamic tool, while RefreshTools runs in
\* another goroutine
ToolsScripts ==
    [calls : {<<<<"dyn_x", "{}">>, GoodKind>>}, text : {<<"txt">>}, final : {<<"answer">>}]

InitToolsRun ==
    /\ InitCommon
    /\ script \in ToolsScripts
    /\ turnsLeft = 1
    /\ InitTools(Tools \o <<DynTool>>)
    /\ mainWorkspace = MainAbs
    /\ InitNoDelegation

NextTools ==
    \/ Next
    \/ \E dynTools \in DynLoads : RefreshTools(dynTools)

SpecTools == InitToolsRun /\ [][NextTools]_vars

\* one turn, while ForceRefreshSession runs in another goroutine
InitSession ==
    /\ InitCommon
    /\ script \in SessionScripts
    /\ turnsLeft = 1
    /\ InitTools(Tools)
    /\ mainWorkspace = MainAbs
    /\ InitNoDelegation

NextSession ==
    \/ Next
    \/ ForceRefreshRead
    \/ ForceRefreshWrite

SpecSession == InitSession /\ [][NextSession]_vars

\* a long chat in which the oracle answers every message at once
InitChat ==
    /\ InitCommon
    /\ script \in SessionScripts
    /\ turnsLeft = MaxChatTurns
    /\ InitTools(Tools)
    /\ mainWorkspace = MainAbs
    /\ InitNoDelegation

NextChat ==
    \/ Start
    \/ LoopHead
    \/ OracleFinal

SpecChat == InitChat /\ [][NextChat]_vars


\* ForceRefreshSession, lines 325-330: the chat has no session, nothing is done
ForceRefreshUnknown ==
    /\ frpc = "idle"
    /\ sessRefreshes < MaxSessionRefreshes
    /\ Messages = <<>>
    /\ sessRefreshes' = sessRefreshes + 1
    /\ UNCHANGED <<xvars, mvars, nextCallID, dvars, xvars, sinceRefresh, offered, msgs, tvars, frpc, frPrompt>>

\* the delegation calls a run of the frame specification makes
FrameArgs ==
    {a \in DelegArgs : a.task # NoText /\ a.workspace = NoWorkspace
                         /\ a.label = NoText /\ a.timeout = NoTimeout}

\* the state left by a subagent call without a task (lines 255-257)
InitDelegationRejected ==
    /\ dtool = "subagent"
    /\ dargs = NoArgs
    /\ callRes = [returned |-> TRUE, result |-> NoText, err |-> <<"task is required">>]
    /\ cid = 0
    /\ taskID = 0
    /\ bgTimeout = 0
    /\ ctimeout = 0
    /\ cpc = "none"
    /\ subTools = <<>>
    /\ cmessages = <<>>
    /\ ci = 0
    /\ cresult = NoResult
    /\ cpending = <<>>
    /\ cexpired = FALSE
    /\ coracleCalls = 0
    /\ cret = NoRet
    /\ tasks = <<>>
    /\ nextID = 1
    /\ callbacks = <<>>

\* either a chat of MaxFrameTurns turns answered at once, with
\* ForceRefreshSession calls at any time, or one turn of a chat while a
\* delegation tool call and its child loop run, the ForceRefreshSession calls
\* having been made before the chat had a session
InitFrame ==
    /\ InitAgent
    /\ InitQuiet
    /\ script \in DelegScripts
    /\ InitTools(Tools)
    /\ mainWorkspace = MainAbs
    /\ \/ /\ turnsLeft = MaxFrameTurns
          /\ sessRefreshes = 0
          /\ InitDelegationRejected
       \/ /\ turnsLeft = 1
          /\ sessRefreshes = MaxSessionRefreshes
          /\ InitNoDelegation

NextFrame ==
    \/ Start
    \/ LoopHead
    \/ OracleFinal
    \/ ForceRefreshUnknown
    \/ ForceRefreshRead
    \/ ForceRefreshWrite
    \/ \E args \in FrameArgs : SubagentExecute(args)
    \/ \E args \in FrameArgs : SpawnExecute(args, 7)
    \/ ChildSetup
    \/ ChildExpire
    \/ ChildLoopHead
    \/ ChildOracleError
    \/ \E content \in ChildFinals : ChildOracleFinal(content)
    \/ ChildOracleTools
    \/ ChildExecTool
    \/ SubagentReturn
    \/ SpawnComplete

SpecFrame == InitFrame /\ [][NextFrame]_vars


(* ---- the workspace tools: read_file, write_file, shell ----------------- *)
\* A rooted path is the sequence of its elements (/w/a is <<"w", "a">>); a
\* path argument that starts with "/" has the token "/" first.
OutsideDir == <<"o">>
LinkPath == MainAbs \o <<"ln">>

\* the directories that exist; the symbolic link /w/ln, where it exists,
\* points to /o
Dirs == {<<>>, MainAbs, MainAbs \o <<"a">>, OutsideDir}

\* filepath.EvalSymlinks of a rooted path
EvalSymlinks(link, p) ==
    IF link /\ Len(p) >= Len(LinkPath) /\ SubSeq(p, 1, Len(LinkPath)) = LinkPath
    THEN OutsideDir \o SubSeq(p, Len(LinkPath) + 1, Len(p))
    ELSE p

HasFile(fs, p) == \E f \in fs : f.path = p
FileData(fs, p) == (CHOOSE f \in fs : f.path = p).data
PutFile(fs, p, data) == {f \in fs : f.path # p} \cup {[path |-> p, data |-> data]}

\* os.Lstat(p) succeeds
Lstat(link, fs, p) ==
    \/ link /\ p = LinkPath
    \/ EvalSymlinks(link, p) \in Dirs
    \/ HasFile(fs, EvalSymlinks(link, p))

IsAbs(path) == path # <<>> /\ Head(path) = "/"

\* resolvePath, codemode.go lines 456-481
resolvePath(path, workspace, link, fs) ==
    LET absWS == workspace
        joined == IF IsAbs(path) THEN Clean(Tail(path)) ELSE Clean(absWS \o path)
        absPath == IF Lstat(link, fs, joined) THEN EvalSymlinks(link, joined) ELSE joined
        wsReal == EvalSymlinks(link, absWS)
        rel == Rel(wsReal, absPath)
    IN  IF HasDotDotPrefix(rel)
        THEN [path |-> <<>>,
              err |-> <<"access denied: path ">> \o path \o <<" is outside workspace">>]
        ELSE [path |-> absPath, err |-> NoText]

\* the content of a file, in chunks of ChunkBytes bytes
ChunkBytes == 6000
readLimit == 12000
Contents == SeqsUpTo({"x"}, MaxChunks)
ByteLen(data) == Len(data) * ChunkBytes

\* lines 55-58 and 69-72: what read_file returns for the bytes it has read
ReadResult(data) ==
    IF ByteLen(data) > readLimit
    THEN SubSeq(data, 1, readLimit \div ChunkBytes)
            \o <<"...(truncated, ", ToString(ByteLen(data)), " total bytes)">>
    ELSE data

\* path.Clean of a path that is not rooted: a ".." that has nothing to remove stays
RECURSIVE CleanRelFrom(_, _)
CleanRelFrom(acc, rest) ==
    IF rest = <<>> THEN acc
    ELSE IF Head(rest) = "." THEN CleanRelFrom(acc, Tail(rest))
    ELSE IF Head(rest) = ".." /\ acc # <<>> /\ acc[Len(acc)] # ".."
         THEN CleanRelFrom(SubSeq(acc, 1, Len(acc) - 1), Tail(rest))
         ELSE CleanRelFrom(Append(acc, Head(rest)), Tail(rest))

\* agentfs: New (the prefix) and FS.key, math.go lines 60-78
key(agentID, p) ==
    <<"agents", IF agentID = "" THEN "default" ELSE agentID, "workspace">> \o
    (IF IsAbs(p) THEN Clean(Tail(p)) ELSE CleanRelFrom(<<>>, p))

\* the agent id of the context: ProcessMessage attaches FormatAgentID(chatID)
\* (math.go line 369), the goroutine of spawn runs on context.Background()
\* (subagent.go line 342); "" stands for a context without one
Agents == {"", "chat-7"}

FilePaths == {<<"f">>, <<"a", "f">>, <<"a", "..", "f">>, <<"..", "f">>, <<"a">>, <<"/", "w", "f">>}

Called(tool, agentID, path, content, res, err) ==
    [tool |-> tool, path |-> path, content |-> content, command |-> <<>>, agent |-> agentID,
     result |-> res, err |-> err, started |-> FALSE, dir |-> <<>>]

\* read_file Execute, codemode.go lines 47-74
ReadFile(agentID, path) ==
    /\ last' =
          IF agentID # "" /\ r2
          THEN IF HasFile(objects, key(agentID, path))
               THEN Called("read_file", agentID, path, <<>>,
                           ReadResult(FileData(objects, key(agentID, path))), NoText)
               ELSE Called("read_file", agentID, path, <<>>, NoText,
                           <<"read ">> \o path \o <<": NoSuchKey">>)
          ELSE LET rp == resolvePath(path, mainWorkspace, links, files)
               IN  IF rp.err # NoText
                   THEN Called("read_file", agentID, path, <<>>, NoText, rp.err)
                   ELSE IF HasFile(files, EvalSymlinks(links, rp.path))
                   THEN Called("read_file", agentID, path, <<>>,
                               ReadResult(FileData(files, EvalSymlinks(links, rp.path))), NoText)
                   ELSE Called("read_file", agentID, path, <<>>, NoText,
                               <<"read ">> \o path \o <<": no such file">>)
    /\ UNCHANGED <<svars, dvars, qvars, avars, links, files, objects, r2>>

\* write_file Execute, codemode.go lines 88-102
WriteFile(agentID, path, content) ==
    /\ LET rp == resolvePath(path, mainWorkspace, links, files)
           real == EvalSymlinks(links, rp.path)
       IN  IF rp.err # NoText
           THEN /\ last' = Called("write_file", agentID, path, content, NoText, rp.err)
                /\ UNCHANGED files
           ELSE IF \E k \in 1..(Len(real) - 1) : HasFile(files, SubSeq(real, 1, k))
           THEN /\ last' = Called("write_file", agentID, path, content, NoText,
                                  <<"mkdir: not a directory">>)
                /\ UNCHANGED files
           ELSE IF real \in Dirs
           THEN /\ last' = Called("write_file", agentID, path, content, NoText,
                                  <<"write ">> \o path \o <<": is a directory">>)
                /\ UNCHANGED files
           ELSE /\ files' = PutFile(files, real, content)
                /\ last' = Called("write_file", agentID, path, content,
                                  <<"Written ">> \o path \o <<" (", ToString(ByteLen(content)), " bytes)">>,
                                  NoText)
    /\ UNCHANGED <<svars, dvars, qvars, avars, links, objects, r2>>

\* dangerPatterns, codemode.go lines 18-29: the first two, each a sequence of
\* tokens of which those marked plus may repeat; all carry the flag (?i)
dangerPatterns ==
    {<<[tok |-> "rm", plus |-> FALSE], [tok |-> " ", plus |-> TRUE],
       [tok |-> "-rf", plus |-> FALSE], [tok |-> " ", plus |-> TRUE],
       [tok |-> "/", plus |-> FALSE]>>,
     <<[tok |-> "sudo", plus |-> FALSE], [tok |-> " ", plus |-> TRUE]>>}

\* a command is a sequence of these tokens
CmdTokens == {"rm", "RM", " ", "-rf", "/", "sudo"}
Commands == SeqsUpTo(CmdTokens, MaxCmdLen) \ {<<>>}

ToLowerToken(tok) == IF tok = "RM" THEN "rm" ELSE tok

\* strings.ToLower
ToLower(s) == [k \in DOMAIN s |-> ToLowerToken(s[k])]

\* whether the pattern matches a prefix of s; fold is the pattern's flag (?i)
RECURSIVE MatchHere(_, _, _)
MatchHere(pat, s, fold) ==
    IF pat = <<>> THEN TRUE
    ELSE IF s = <<>> THEN FALSE
    ELSE IF (IF fold THEN ToLowerToken(Head(s)) ELSE Head(s)) # Head(pat).tok THEN FALSE
    ELSE IF Head(pat).plus
         THEN MatchHere(pat, Tail(s), fold) \/ MatchHere(Tail(pat), Tail(s), fold)
         ELSE MatchHere(Tail(pat), Tail(s), fold)

\* Regexp.MatchString: the pattern matches somewhere in s
MatchString(pat, s, fold) ==
    \E k \in 1..Len(s) : MatchHere(pat, SubSeq(s, k, Len(s)), fold)

\* mutant: the command is matched as it is, by patterns without (?i)
guardCommand_caseSensitive(command) ==
    \E pat \in dangerPatterns : MatchString(pat, command, FALSE)

\* guardCommand, codemode.go lines 483-490: TRUE when the command is blocked
guardCommand(command) ==
    \E pat \in dangerPatterns : MatchString(pat, ToLower(command), TRUE)

\* what the caller of shell may give as cwd
Cwds == {<<>>, <<"a">>, <<"a", "..", "..">>, <<"ln">>, <<"ln", "new">>, <<"/", "o">>}

Ran(command, cwd, res, err, started, dir) ==
    [tool |-> "shell", path |-> cwd, content |-> <<>>, command |-> command, agent |-> "",
     result |-> res, err |-> err, started |-> started, dir |-> dir]

\* a call of the shell tool that has not run yet, with its arguments
ShellCall(command, cwd) ==
    [tool |-> "call", path |-> cwd, content |-> <<>>, command |-> command, agent |-> "",
     result |-> NoText, err |-> NoText, started |-> FALSE, dir |-> <<>>]

\* shell Execute, codemode.go lines 223-253.  exec starts the subprocess sh in
\* cmd.Dir; where that is no directory the start fails and no process runs.
Shell(command, cwd) ==
    /\ last = ShellCall(command, cwd)
    /\ last' =
          IF guardCommand(command)
          THEN Ran(command, cwd, NoText, <<"command blocked by safety guard">>, FALSE, <<>>)
          ELSE LET rp == IF cwd # <<>>
                         THEN resolvePath(cwd, mainWorkspace, links, files)
                         ELSE [path |-> mainWorkspace, err |-> NoText]
                   dir == EvalSymlinks(links, rp.path)
               IN  IF rp.err # NoText
                   THEN Ran(command, cwd, NoText, rp.err, FALSE, <<>>)
                   ELSE IF dir \notin Dirs
                   THEN Ran(command, cwd, <<"Exit error: chdir: no such file or directory">>,
                            NoText, FALSE, <<>>)
                   ELSE Ran(command, cwd, <<"(no output)">>, NoText, TRUE, dir)
    /\ UNCHANGED <<svars, dvars, qvars, avars, links, files, objects, r2>>

\* an agent with a workspace that may hold the link, and one call of the
\* shell tool with any command and cwd
InitShell ==
    /\ InitAgent
    /\ sessRefreshes = 0
    /\ script \in SessionScripts
    /\ turnsLeft = 0
    /\ InitTools(Tools)
    /\ mainWorkspace = MainAbs
    /\ InitNoDelegation
    /\ listed = NoListing
    /\ InitNoConc
    /\ links \in BOOLEAN
    /\ files = {}
    /\ objects = {}
    /\ r2 = FALSE
    /\ \E command \in Commands, cwd \in Cwds : last = ShellCall(command, cwd)

NextShell == Shell(last.command, last.path)

SpecShell == InitShell /\ [][NextShell]_vars

\* an agent built with or without an R2 client (math.go line 245), whose
\* bucket may hold an object of the agent's R2 workspace
InitFiles ==
    /\ InitAgent
    /\ sessRefreshes = 0
    /\ script \in SessionScripts
    /\ turnsLeft = 0
    /\ InitTools(Tools)
    /\ mainWorkspace = MainAbs
    /\ InitNoDelegation
    /\ listed = NoListing
    /\ InitNoConc
    /\ links = FALSE
    /\ files = {}
    /\ objects \in {{}, {[path |-> key("chat-7", <<"f">>), data |-> <<"x">>]}}
    /\ r2 \in BOOLEAN
    /\ last = NoCall

NextFiles ==
    \/ \E agentID \in Agents, path \in FilePaths : ReadFile(agentID, path)
    \/ \E agentID \in Agents, path \in FilePaths, content \in Contents :
          WriteFile(agentID, path, content)

SpecFiles == InitFiles /\ [][NextFiles]_vars


(* ---- the tracker ------------------------------------------------------- *)
\* the chats whose spawn calls record tasks, and the chat ids of status
\* queries: runAgent runs its conversation as chat 0 (part_003 line 187)
TrackerChats == {7, 9}
QueryChats == {0} \cup TrackerChats
TrackerLabels == {NoText, <<"job">>}

\* truncateTask, lines 74-79, a token standing for a byte
truncateTask(s, max) ==
    IF Len(s) <= max THEN s ELSE SubSeq(s, 1, max) \o <<"...">>

\* SubagentTracker.RecordStart, lines 39-49, the whole body under t.mu
RecordStart(label, task, chatID) ==
    /\ nextID <= MaxTasks
    /\ tasks' = Append(tasks, [ID |-> nextID, Label |-> label, Task |-> truncateTask(task, 60),
                               ChatID |-> chatID, Status |-> "running"])
    /\ nextID' = nextID + 1
    /\ UNCHANGED <<svars, xvars, mainWorkspace, dtool, dargs, callRes, cid, taskID, bgTimeout,
                   ctimeout, cpc, subTools, cmessages, ci, cresult, cpending, cexpired,
                   coracleCalls, cret, callbacks>>

\* the goroutine of a recorded task ends and calls RecordComplete, line 353
RecordCompleteCall(id, status) ==
    /\ id \in DOMAIN tasks
    /\ tasks[id].Status = "running"
    /\ tasks' = RecordComplete(tasks, id, status)
    /\ UNCHANGED <<svars, xvars, mainWorkspace, dtool, dargs, callRes, cid, taskID, bgTimeout,
                   ctimeout, cpc, subTools, cmessages, ci, cresult, cpending, cexpired,
                   coracleCalls, cret, nextID, callbacks>>

\* SubagentTracker.ListTasks, lines 62-72; the order of the result is the
\* map's iteration order, so it is taken as a set
ListTasks(t, chatID) ==
    {t[k] : k \in {j \in DOMAIN t : chatID = 0 \/ t[j].ChatID = chatID}}

\* a status query, telegram.go line 494
ListTasksCall(chatID) ==
    /\ listed' = [called |-> TRUE, chatID |-> chatID, out |-> ListTasks(tasks, chatID),
                  seen |-> {tasks[k] : k \in DOMAIN tasks}]
    /\ UNCHANGED <<svars, dvars, avars, wvars>>

InitTracker ==
    /\ InitCommon
    /\ script \in SessionScripts
    /\ turnsLeft = 0
    /\ InitTools(Tools)
    /\ mainWorkspace = MainAbs
    /\ InitNoDelegation

NextTracker ==
    \/ \E label \in TrackerLabels, chatID \in TrackerChats :
          RecordStart(label, <<"count lines">>, chatID)
    \/ \E id \in 1..MaxTasks, status \in {"completed", "failed"} : RecordCompleteCall(id, status)
    \/ \E chatID \in QueryChats : ListTasksCall(chatID)

SpecTracker == InitTracker /\ [][NextTracker]_vars


(* ---- ProcessMessage, several invocations at once ----------------------- *)
\* processUpdates starts a goroutine per message (telegram.go line 232), and
\* each runs ProcessMessage on the one Agent.  A step is a critical section
\* of a.mu or what lies between two of them.

ConcReturn(p, text, how) ==
    /\ ppc' = [ppc EXCEPT ![p] = "done"]
    /\ preply' = [preply EXCEPT ![p] = text]
    /\ pret' = [pret EXCEPT ![p] = how]

\* lines 347-365 up to the first call of buildSystemPrompt: a.mu is taken and
\* the session is looked up.  With a session that needs no refresh the user
\* message is appended, the list is trimmed and the lock is released; else the
\* invocation goes on to build the prompt with the lock held.
ConcAcquire(p) ==
    /\ ppc[p] = "lock"
    /\ mu = 0
    /\ LET m == sessions[pchat[p]]
       IN  IF m = <<>> \/ (Len(m) > 1 /\ Len(m) % refreshEvery = 0)
           THEN /\ mu' = p
                /\ ppc' = [ppc EXCEPT ![p] = "build"]
                /\ UNCHANGED sessions
           ELSE /\ sessions' = [sessions EXCEPT ![pchat[p]] = trimSession(Append(m, UserMsg(UserText)))]
                /\ ppc' = [ppc EXCEPT ![p] = "check"]
                /\ UNCHANGED mu
    /\ UNCHANGED <<svars, dvars, qvars, wvars, pchat, pit, presult, ppending, pfinal, psnap,
                   preply, pret, pexpired, now, callBase>>

\* lines 350-365: buildSystemPrompt has returned (it reads the clock and, from
\* R2, the memory, the goals and the registry); the session is created or its
\* position 0 replaced, the user message appended, the list trimmed, a.mu released
ConcBuilt(p) ==
    /\ ppc[p] = "build"
    /\ mu = p
    /\ LET m == sessions[pchat[p]]
           prompt == SystemMsg(buildSystemPrompt(now))
           m0 == IF m = <<>> THEN <<prompt>> ELSE [m EXCEPT ![1] = prompt]
       IN  sessions' = [sessions EXCEPT ![pchat[p]] = trimSession(Append(m0, UserMsg(UserText)))]
    /\ mu' = 0
    /\ ppc' = [ppc EXCEPT ![p] = "check"]
    /\ UNCHANGED <<svars, dvars, qvars, wvars, pchat, pit, presult, ppending, pfinal, psnap,
                   preply, pret, pexpired, now, callBase>>

\* the deadline of an invocation's context passes
ConcExpire(p) ==
    /\ ppc[p] \in {"check", "oracle", "tools"}
    /\ ~pexpired[p]
    /\ pexpired' = [pexpired EXCEPT ![p] = TRUE]
    /\ UNCHANGED <<svars, dvars, qvars, wvars, sessions, mu, ppc, pchat, pit, presult, ppending,
                   pfinal, psnap, preply, pret, now, callBase>>

\* the clock moves on, or ExtractAndLearn stores what a turn taught (line 455)
Tick ==
    /\ now < MaxTicks
    /\ now' = now + 1
    /\ UNCHANGED <<svars, dvars, qvars, wvars, sessions, mu, ppc, pchat, pit, presult, ppending,
                   pfinal, psnap, preply, pret, pexpired, callBase>>

\* lines 375-388: loop condition, ctx.Done() check, the copy made under a.mu
ConcLoopHead(p) ==
    /\ ppc[p] = "check"
    /\ IF pit[p] >= maxIterations
       THEN /\ ConcReturn(p, pfinal[p], "limit")
            /\ UNCHANGED psnap
       ELSE IF pexpired[p]
            THEN /\ ConcReturn(p, TimeoutText, "timeout")
                 /\ UNCHANGED psnap
            ELSE /\ mu = 0
                 /\ psnap' = [psnap EXCEPT ![p] = sessions[pchat[p]]]
                 /\ ppc' = [ppc EXCEPT ![p] = "oracle"]
                 /\ UNCHANGED <<preply, pret>>
    /\ UNCHANGED <<svars, dvars, qvars, wvars, sessions, mu, pchat, pit, presult, ppending,
                   pfinal, pexpired, now, callBase>>

\* lines 388-392
ConcOracleError(p) ==
    /\ ppc[p] = "oracle"
    /\ ConcReturn(p, ErrorText(IF pexpired[p] THEN CtxDeadlineErr ELSE LLMErr), "error")
    /\ UNCHANGED <<svars, dvars, qvars, wvars, sessions, mu, pchat, pit, presult, ppending,
                   pfinal, psnap, pexpired, now, callBase>>

\* lines 399-406
ConcOracleFinal(p) ==
    /\ ppc[p] = "oracle"
    /\ ~pexpired[p]
    /\ mu = 0
    /\ LET res == [Content |-> script.final, ToolCalls |-> NoCalls]
       IN  /\ presult' = [presult EXCEPT ![p] = res]
           /\ pfinal' = [pfinal EXCEPT ![p] = res.Content]
           /\ sessions' = [sessions EXCEPT ![pchat[p]] = Append(@, AssistantMsg(res.Content, NoCalls))]
           /\ ConcReturn(p, res.Content, "final")
    /\ UNCHANGED <<svars, dvars, qvars, wvars, mu, pchat, pit, ppending, psnap, pexpired, now,
                   callBase>>

\* lines 408-416; the oracle numbers the calls of an invocation from its callBase on
ConcOracleTools(p) ==
    /\ ppc[p] = "oracle"
    /\ ~pexpired[p]
    /\ mu = 0
    /\ pit[p] < MaxRounds
    /\ LET first == callBase[p] + pit[p] * Len(script.calls) + 1
           res == [Content |-> script.text, ToolCalls |-> IssueCalls(script.calls, first)]
       IN  /\ presult' = [presult EXCEPT ![p] = res]
           /\ sessions' = [sessions EXCEPT ![pchat[p]] = Append(@, AssistantMsg(res.Content, res.ToolCalls))]
           /\ ppending' = [ppending EXCEPT ![p] = res.ToolCalls]
    /\ ppc' = [ppc EXCEPT ![p] = "tools"]
    /\ UNCHANGED <<svars, dvars, qvars, wvars, mu, pchat, pit, pfinal, psnap, preply, pret,
                   pexpired, now, callBase>>

\* one pass of the loop of lines 418-443: the handler has returned and its
\* result is appended under a.mu; after the last one lines 445-450
ConcExecTool(p) ==
    /\ ppc[p] = "tools"
    /\ ppending[p] # <<>>
    /\ mu = 0
    /\ sessions' = [sessions EXCEPT ![pchat[p]] = Append(@, ToolResultMsg(Head(ppending[p])))]
    /\ ppending' = [ppending EXCEPT ![p] = Tail(@)]
    /\ IF Tail(ppending[p]) = <<>>
       THEN /\ pfinal' = [pfinal EXCEPT ![p] =
                            IF pit[p] = maxIterations - 1
                            THEN IF presult[p].Content = NoText THEN LimitNote
                                 ELSE presult[p].Content
                            ELSE @]
            /\ pit' = [pit EXCEPT ![p] = @ + 1]
            /\ ppc' = [ppc EXCEPT ![p] = "check"]
       ELSE UNCHANGED <<pfinal, pit, ppc>>
    /\ UNCHANGED <<svars, dvars, qvars, wvars, mu, pchat, presult, psnap, preply, pret, pexpired,
                   now, callBase>>

\* two messages have arrived, for the same chat or for two chats, and a
\* goroutine runs ProcessMessage for each
InitConc ==
    /\ InitAgent
    /\ sessRefreshes = 0
    /\ script \in SessionScripts
    /\ turnsLeft = 0
    /\ InitTools(Tools)
    /\ mainWorkspace = MainAbs
    /\ InitNoDelegation
    /\ listed = NoListing
    /\ InitNoFiles
    /\ sessions = [c \in ConcChats |-> <<>>]
    /\ mu = 0
    /\ ppc = [p \in Procs |-> "lock"]
    /\ pchat \in [Procs -> ConcChats]
    /\ pit = [p \in Procs |-> 0]
    /\ presult = [p \in Procs |-> NoResult]
    /\ ppending = [p \in Procs |-> <<>>]
    /\ pfinal = [p \in Procs |-> NoText]
    /\ psnap = [p \in Procs |-> <<>>]
    /\ preply = [p \in Procs |-> NoText]
    /\ pret = [p \in Procs |-> "none"]
    /\ pexpired = [p \in Procs |-> FALSE]
    /\ now = 0
    /\ callBase \in {b \in [Procs -> {0, 50}] : b[1] = 0}

NextConc ==
    \/ \E p \in Procs : ConcAcquire(p)
    \/ \E p \in Procs : ConcBuilt(p)
    \/ \E p \in Procs : ConcExpire(p)
    \/ Tick
    \/ \E p \in Procs : ConcLoopHead(p)
    \/ \E p \in Procs : ConcOracleError(p)
    \/ \E p \in Procs : ConcOracleFinal(p)
    \/ \E p \in Procs : ConcOracleTools(p)
    \/ \E p \in Procs : ConcExecTool(p)

SpecConc == InitConc /\ [][NextConc]_vars


(* ======================================================================= *)
(* Properties                                                              *)
(* ======================================================================= *)
Range(f) == {f[k] : k \in DOMAIN f}

\* position of the last assistant message that requests tools, 0 if none
LastRequest(m) ==
    LET S == {k \in 1..Len(m) : m[k].Role = "assistant" /\ m[k].ToolCalls # NoCalls}
    IN  IF S = {} THEN 0 ELSE CHOOSE k \in S : \A j \in S : j <= k

\* C1: in every reachable state of a session, mid-turn included, the
\* transcript holds at most maxSessionMessages+1 = 51 messages.
C1_LengthWithinCap == Len(Messages) <= maxSessionMessages + 1

\* C2: every tool message carries the id of a tool call of exactly one
\* assistant message that precedes it in the transcript.
C2_ToolResultsMatched ==
    \A k \in 1..Len(Messages) :
        Messages[k].Role = "tool" =>
            Cardinality({j \in 1..(k - 1) :
                /\ Messages[j].Role = "assistant"
                /\ \E c \in 1..Len(Messages[j].ToolCalls) :
                        Messages[j].ToolCalls[c].ID = Messages[k].ToolCallID}) = 1

\* C3: position 0 of a session is always a system message; trimSession
\* applied to more than 51 messages keeps position 0 and then exactly the
\* last 50 messages in order, and leaves 51 or fewer messages as they are.
C3_SystemFirstAndTrim ==
    /\ Messages # <<>> => Messages[1].Role = "system"
    /\ (pc = "check" /\ oracleCalls = 0) =>
          IF Len(preTrim) > 51
          THEN /\ Len(Messages) = 51
               /\ Messages[1] = preTrim[1]
               /\ \A k \in 1..50 : Messages[1 + k] = preTrim[Len(preTrim) - 50 + k]
          ELSE Messages = preTrim

C3_Witness ==
    /\ pc = "check"
    /\ oracleCalls = 0
    /\ Len(preTrim) > 51
    /\ Len(Messages) = 51

\* C4: after the oracle returned n >= 1 tool calls, the transcript ends with
\* that assistant message followed by the results of the calls executed so
\* far, one per call, in the order of the calls and each with its call's id;
\* one call is executed at a time, and all n results are there whenever the
\* loop is at its head, at the next oracle call, or has returned.
C4_ResultsFollowRequest ==
    result.ToolCalls # NoCalls =>
        LET n == Len(result.ToolCalls)
            executed == n - Len(pending)
            a == LastRequest(Messages)
        IN  /\ a > 0
            /\ Messages[a].ToolCalls = result.ToolCalls
            /\ Len(Messages) = a + executed
            /\ \A j \in 1..executed :
                  /\ Messages[a + j].Role = "tool"
                  /\ Messages[a + j].ToolCallID = result.ToolCalls[j].ID
            /\ pending = SubSeq(result.ToolCalls, executed + 1, n)
            /\ pc = "tools" <=> executed < n

C4_Witness ==
    /\ pc = "oracle"
    /\ i > 0
    /\ Len(result.ToolCalls) >= 2
    /\ Messages[Len(Messages)].ToolCallID = result.ToolCalls[Len(result.ToolCalls)].ID

\* C5: a turn in which every oracle call returns tool calls, with no oracle
\* error and no timeout return, makes exactly maxIterations oracle calls,
\* then returns, and returns a non-empty text.
C5_StopsAtCap ==
    /\ oracleCalls <= maxIterations
    /\ (pc = "done" /\ ret \notin {"final", "error", "timeout"}) =>
          /\ ret = "limit"
          /\ oracleCalls = maxIterations
          /\ i = maxIterations
          /\ reply # NoText
    /\ (pc \in {"check", "oracle", "tools"} /\ i = maxIterations) => pc = "check"

C5_Witness ==
    /\ pc = "done"
    /\ ret = "limit"
    /\ oracleCalls = maxIterations
    /\ reply = LimitNote

\* C6: when the deadline of the turn has passed, also while an oracle call
\* is outstanding, ProcessMessage returns the timeout message.
C6_TimeoutReply ==
    (pc = "done" /\ expired) => (ret = "timeout" /\ reply = TimeoutText)

\* C7: a reply given because the iteration cap was reached contains the
\* note that the limit was hit.
C7_LimitNoted ==
    (pc = "done" /\ ret = "limit") => \E k \in 1..Len(reply) : reply[k] = LimitNote[1]

\* C8: a tool call whose name is not in the registry, whose arguments do not
\* decode, or whose handler fails gets a tool result 'Error: <message>'; the
\* step neither returns nor drops the calls that remain, and the loop goes
\* on to its head as it does after a call that succeeded.
C8_Unknown(tc) == \A k \in 1..Len(Tools) : Tools[k].Name # tc.Name
C8_BadArgs(tc) == ~C8_Unknown(tc) /\ tc.Arguments \notin {"", "{}"}
C8_HandlerFails(tc) == ~C8_Unknown(tc) /\ ~C8_BadArgs(tc) /\ tc.Name = "broken"
C8_Failing(tc) == C8_Unknown(tc) \/ C8_BadArgs(tc) \/ C8_HandlerFails(tc)

C8_ToolErrorsFedBack ==
    [][ (pc = "tools" /\ C8_Failing(Head(pending)) /\ Messages' # Messages) =>
          LET tc == Head(pending)
              m == Messages'[Len(Messages')]
          IN  /\ Len(Messages') = Len(Messages) + 1
              /\ m.Role = "tool"
              /\ m.ToolCallID = tc.ID
              /\ Len(m.Content) >= 2
              /\ m.Content[1] = "Error: "
              /\ C8_Unknown(tc) => m.Content = <<"Error: ", "unknown tool: ", tc.Name>>
              /\ C8_BadArgs(tc) => m.Content[2] = "parse tool args: "
              /\ pending' = Tail(pending)
              /\ ret' = "none"
              /\ IF Tail(pending) # <<>>
                 THEN pc' = "tools" /\ i' = i
                 ELSE pc' = "check" /\ i' = i + 1 ]_vars

C8_Witness ==
    /\ pc = "oracle"
    /\ i > 0
    /\ Len(result.ToolCalls) >= 2
    /\ C8_Unknown(result.ToolCalls[1])
    /\ Messages[Len(Messages)].Content = <<"42">>
    /\ Messages[Len(Messages) - Len(result.ToolCalls) + 1].Content[1] = "Error: "

\* C9: when an oracle call fails, ProcessMessage returns at once the text
\* reporting that error; after the failure it makes no oracle call, runs no
\* tool and appends nothing until the next turn starts.
C9_OracleFailureIsFatal ==
    /\ [](lastErr # NoText =>
            /\ pc = "done"
            /\ ret = "error"
            /\ reply = <<"Error: ">> \o lastErr)
    /\ [][ (lastErr # NoText /\ lastErr' # NoText) =>
            /\ oracleCalls' = oracleCalls
            /\ Messages' = Messages
            /\ pending' = pending ]_vars
    /\ [][ (lastErr = NoText /\ lastErr' # NoText) =>
            /\ pc = "oracle"
            /\ oracleCalls' = oracleCalls
            /\ Messages' = Messages ]_vars

C9_Witness ==
    /\ pc = "done"
    /\ ret = "error"
    /\ lastErr = LLMErr
    /\ i > 0
    /\ oracleCalls = i + 1

\* whether the cleaned path lies in the tree below root
Inside(root, path) == Len(path) >= Len(root) /\ SubSeq(path, 1, Len(root)) = root

\* the requested sub-workspace resolves outside the configured main workspace
C10_Escapes ==
    /\ mainWorkspace # NoWorkspace
    /\ dargs.workspace # NoWorkspace
    /\ ~Inside(mainWorkspace, Clean(mainWorkspace \o dargs.workspace))

\* C10: for both subagent and spawn, when the requested sub-workspace resolves
\* outside the main workspace root, the delegation tool call itself returns an
\* error, no child tool registry is built and no child oracle call is made.
C10_EscapeRejected ==
    (dtool \in {"subagent", "spawn"} /\ C10_Escapes)
        => /\ subTools = <<>>
           /\ coracleCalls = 0
           /\ callRes.returned => callRes.err # NoText

DelegationNames == {"spawn", "subagent"}

\* C11: no child registry, with or without a sub-workspace, holds a tool named
\* spawn or subagent, so a child's call of either is answered "unknown tool"
\* and never starts another loop: loops nest at most two deep.
C11_NoDelegationInChild ==
    /\ \A k \in 1..Len(subTools) : subTools[k].Name \notin DelegationNames
    /\ \A k \in 1..Len(cmessages) :
          (cmessages[k].Role = "tool" /\ cmessages[k].Name \in DelegationNames)
              => cmessages[k].Content = ErrorText(<<"unknown tool: ", cmessages[k].Name>>)

C11_Witness ==
    /\ cpc = "check"
    /\ dargs.workspace # NoWorkspace
    /\ subTools # <<>>
    /\ \E k \in 1..Len(cmessages) : cmessages[k].Role = "tool" /\ cmessages[k].Name = "subagent"
    /\ \E k \in 1..Len(cmessages) : cmessages[k].Role = "tool" /\ cmessages[k].Name = "spawn"

\* the spawn call was accepted: its goroutine exists
C12_Accepted == dtool = "spawn" /\ cpc # "none"

C12_Acks ==
    {<<"Spawned subagent. Will report when done.">>,
     <<"Spawned subagent '">> \o dargs.label \o <<"' for task. Will report when done.">>}

\* C12: an accepted spawn has returned its acknowledgement, free of child
\* output, already before the child loop has run, and the acknowledgement never
\* changes; the completion callback has been invoked exactly once when the
\* goroutine is over and not before, with the chat id the task was recorded
\* for, whether the child answered, failed, timed out or hit its cap.
C12_AckThenOneCallback ==
    /\ [](C12_Accepted =>
            /\ callRes.returned /\ callRes.err = NoText /\ callRes.result \in C12_Acks
            /\ Len(callbacks) = (IF cpc = "closed" THEN 1 ELSE 0)
            /\ \A k \in 1..Len(callbacks) : callbacks[k].chatID = tasks[taskID].ChatID)
    /\ [][C12_Accepted => callRes' = callRes]_vars
    /\ [][C12_Accepted /\ cpc = "done" => Len(callbacks') = 1]_vars

\* the goroutine of a spawn whose child hit the iteration cap is over
C12_Witness ==
    /\ C12_Accepted
    /\ cpc = "closed"
    /\ coracleCalls = subagentMaxIterations
    /\ cret = [res |-> <<"(Subagent reached iteration limit)">>, err |-> NoText]
    /\ Len(callbacks) = 1

\* C13: a task record is created with status running; its status changes
\* exactly once, to completed or failed, in the step in which its background
\* child loop's goroutine ends; a completed or failed record never changes.
C13_OneStatusChange ==
    /\ [](\A k \in 1..Len(tasks) :
            /\ tasks[k].Status \in {"running", "completed", "failed"}
            /\ (tasks[k].Status = "running") = (k = taskID /\ cpc # "closed")
            /\ (tasks[k].Status = "failed") = (k = taskID /\ cpc = "closed" /\ cret.err # NoText))
    /\ [][ /\ Len(tasks') >= Len(tasks)
           /\ \A k \in 1..Len(tasks') :
                IF k > Len(tasks)
                THEN tasks'[k].Status = "running"
                ELSE \/ tasks'[k] = tasks[k]
                     \/ /\ tasks[k].Status = "running"
                        /\ tasks'[k].Status \in {"completed", "failed"}
                        /\ cpc = "done" /\ cpc' = "closed"
                        /\ tasks'[k] = [tasks[k] EXCEPT !.Status = tasks'[k].Status] ]_vars

\* the record of a spawn whose child failed
C13_Witness ==
    /\ dtool = "spawn"
    /\ cpc = "closed"
    /\ Len(tasks) = 1
    /\ tasks[1].Status = "failed"
    /\ coracleCalls > 0

\* the spawn timeout as documented: 300 s when none is requested, the request
\* capped at 600 s
C14_SpawnTimeout ==
    IF ~dargs.timeout.given THEN spawnTimeoutDefault
    ELSE Min2(DurationSeconds(dargs.timeout.halves), subagentSyncTimeoutMax)

\* C14: a spawned child loop runs under its own deadline, equal to the spawn
\* timeout: 300 s when none is requested, a requested value capped at 600 s
\* (stated for requests of whole seconds).
C14_SpawnDeadline ==
    (dtool = "spawn" /\ cpc \notin {"none", "setup"}
        /\ (dargs.timeout.given => dargs.timeout.halves \in {200, 1400}))
        => SpawnChildDeadline = C14_SpawnTimeout

\* the synchronous child loop has its context
C15_Applied == dtool = "subagent" /\ cpc \notin {"none", "setup"}

\* C15 as claimed: the timeout applied to a synchronous child loop is 180 s for
\* an absent or non-positive request, 600 s for a request above 600 s, and the
\* request itself otherwise (compared in half seconds).
C15_ClampAsClaimed ==
    C15_Applied =>
        2 * ctimeout =
            (IF ~dargs.timeout.given \/ dargs.timeout.halves <= 0
             THEN 2 * subagentSyncTimeoutDefault
             ELSE IF dargs.timeout.halves > 2 * subagentSyncTimeoutMax
                  THEN 2 * subagentSyncTimeoutMax
                  ELSE dargs.timeout.halves)

C16_LimitNote == <<"(Subagent reached iteration limit)">>

C17_ChildBuilt == dtool # "none" /\ dargs.workspace # NoWorkspace /\ cmessages # <<>>

C17_Count(name) == Cardinality({k \in 1..Len(subTools) : subTools[k].Name = name})

\* C17: whenever a non-empty sub-workspace is requested, the child registry
\* holds read_file, write_file, edit_file, list_files and shell rooted at the
\* validated sub-path, none of the parent's versions of the five, and every
\* other parent tool that is not a delegation tool, unchanged and in order.
C17_SubWorkspaceRegistry ==
    C17_ChildBuilt =>
        LET parent == ParentTools(mainWorkspace)
            subPath == Clean(mainWorkspace \o dargs.workspace)
            others == SelectSeq(parent, NotDelegationNorWorkspace)
        IN  /\ \A name \in workspaceToolNames :
                  /\ C17_Count(name) = 1
                  /\ \A k \in 1..Len(subTools) :
                        subTools[k].Name = name => subTools[k].Root = subPath
            /\ SubSeq(subTools, 1, Len(others)) = others

\* C18: within one ProcessMessage invocation the catalog sent to the oracle
\* and the registry that dispatches its tool calls are the same snapshot in
\* every iteration, also when RefreshTools runs concurrently: every tool
\* offered in an iteration is dispatchable in that iteration.
C18_OfferedDispatchable ==
    (pc = "tools" /\ pending # <<>>) =>
        /\ offered = ToLLMDefs(aTools)
        /\ \A n \in 1..Len(offered) : \E k \in 1..Len(aTools) : aTools[k].Name = offered[n]

\* C19: the session's list is read and written in steps taken under the agent
\* mutex; the list handed to an oracle call is the whole list as it is when the
\* call is made, and while the call is outstanding it does not change, whatever
\* ForceRefreshSession writes to the session meanwhile.
C19_PrivateSnapshot ==
    /\ [](pc = "oracle" =>
            /\ Len(msgs.list) = Len(Messages)
            /\ \A k \in 2..Len(Messages) : msgs.list[k] = Messages[k]
            /\ msgs.list[1].Role = "system")
    /\ [][(pc = "check" /\ pc' = "oracle") => (msgs'.list = Messages /\ Messages' = Messages)]_vars
    /\ [][(pc = "oracle" /\ pc' = "oracle") => msgs'.list = msgs.list]_vars

\* ForceRefreshSession has replaced position 0 while an oracle call of a later
\* iteration is outstanding
C19_Witness ==
    /\ pc = "oracle"
    /\ i > 0
    /\ frpc = "idle"
    /\ sessRefreshes > 0
    /\ msgs.list # Messages

\* C20: in any conversation, every run of refreshEvery consecutive user turns
\* has a turn at whose start position 0 is rebuilt.
C20_RefreshedEvery15 == sinceRefresh < refreshEvery

\* C22: on a fresh conversation, a turn of k tool-call rounds (k < maxIterations,
\* the list below the cap) followed by a final answer returns the final answer's
\* text, and the transcript is system, user, for each round the assistant
\* message with its calls and one result per call, then the final assistant
\* message: 3 messages when k = 0.
C22_TurnTranscript ==
    (pc = "done" /\ ret = "final" /\ Len(Messages) <= maxSessionMessages) =>
        LET n == Len(script.calls)
            k == i
        IN  /\ k < maxIterations
            /\ reply = script.final
            /\ Len(Messages) = 3 + k * (n + 1)
            /\ Messages[1].Role = "system"
            /\ Messages[2] = UserMsg(UserText)
            /\ \A j \in 0..(k - 1) :
                  LET base == 3 + j * (n + 1)
                      calls == IssueCalls(script.calls, 1 + j * n)
                  IN  /\ Messages[base] = AssistantMsg(script.text, calls)
                      /\ \A c \in 1..n :
                            /\ Messages[base + c].Role = "tool"
                            /\ Messages[base + c].ToolCallID = calls[c].ID
                            /\ Messages[base + c].Name = calls[c].Name
            /\ Messages[Len(Messages)] = AssistantMsg(script.final, NoCalls)

\* two rounds of two calls each, then the final answer
C22_Witness ==
    /\ pc = "done"
    /\ ret = "final"
    /\ i = 2
    /\ Len(script.calls) = 2
    /\ Len(Messages) = 9

\* C29: whenever ProcessMessage returns, the returned text is the content of
\* the last message of the transcript, and that message is an assistant message
\* without tool calls.
C29_ReplyIsLastMessage ==
    pc = "done" =>
        /\ Messages # <<>>
        /\ Messages[Len(Messages)].Role = "assistant"
        /\ Messages[Len(Messages)].ToolCalls = NoCalls
        /\ Messages[Len(Messages)].Content = reply

\* C27: every accepted spawn ends: with the goroutine scheduled fairly and
\* every oracle call and tool handler returning or cut off by the deadline, the
\* status of its task in the tracker leaves running and the completion callback
\* is invoked.
C27_SpawnEnds ==
    (dtool = "spawn" /\ taskID # 0) ~>
        (taskID # 0 /\ tasks[taskID].Status # "running" /\ Len(callbacks) = 1)

\* an accepted spawn whose child used all its iterations has ended
C27_Witness ==
    /\ dtool = "spawn"
    /\ taskID # 0
    /\ ci = subagentMaxIterations
    /\ tasks[taskID].Status = "completed"
    /\ Len(callbacks) = 1

\* the list m2 is m with position 0 rewritten: still a system message, the
\* length and every other position as before
C25_Position0Only(m, m2) ==
    /\ m # <<>>
    /\ Len(m2) = Len(m)
    /\ m[1].Role = "system"
    /\ m2[1].Role = "system"
    /\ \A k \in 2..Len(m) : m2[k] = m[k]

\* C25: apart from trimSession a transcript changes only by an append at its
\* end or by the replacement of position 0.  The periodic refresh of
\* ProcessMessage and ForceRefreshSession change only the content of position
\* 0; ForceRefreshSession on a chat without session creates none, and no step
\* of a child loop creates or changes a session.
C25_Frame ==
    [][/\ \/ Messages' = Messages
          \/ /\ Messages # <<>>
             /\ Len(Messages') = Len(Messages) + 1
             /\ SubSeq(Messages', 1, Len(Messages)) = Messages
          \/ C25_Position0Only(Messages, Messages')
          \/ turnsLeft' # turnsLeft
       /\ turnsLeft' # turnsLeft =>
             /\ Messages' = trimSession(preTrim')
             /\ preTrim'[Len(preTrim')] = UserMsg(UserText)
             /\ LET m1 == SubSeq(preTrim', 1, Len(preTrim') - 1)
                IN  IF Messages = <<>>
                    THEN Len(m1) = 1 /\ m1[1].Role = "system"
                    ELSE m1 = Messages \/ C25_Position0Only(Messages, m1)
       /\ sessRefreshes' # sessRefreshes => Messages' = Messages
       /\ frpc = "build" /\ frpc' = "idle" =>
             /\ C25_Position0Only(Messages, Messages')
             /\ Messages'[1].Content = frPrompt
       /\ (cpc' # cpc \/ cmessages' # cmessages \/ dtool' # dtool \/ callbacks' # callbacks) =>
             Messages' = Messages
      ]_vars

\* a chat whose position 0 was rewritten by ForceRefreshSession, and again
\* by the refresh at the start of this turn
C25_Witness ==
    /\ pc = "check"
    /\ Len(Messages) = refreshEvery + 1
    /\ sinceRefresh = 0
    /\ sessRefreshes > 0
    /\ frpc = "idle"

C21_ReplayIdentical ==
    (/\ pchat[1] # pchat[2]
     /\ ppc[1] = "done" /\ ppc[2] = "done"
     /\ pret[1] = "final" /\ pret[2] = "final"
     /\ pit[1] = pit[2]
     /\ callBase[1] = callBase[2]) =>
        /\ sessions[pchat[1]] = sessions[pchat[2]]
        /\ preply[1] = preply[2]

\* C24: while an invocation is blocked on external I/O (an oracle call, a tool
\* handler, the reads of buildSystemPrompt), an invocation for another chat
\* that waits for a.mu can go on.
C24_OtherChatsProceed ==
    \A p, q \in Procs :
        (/\ pchat[p] # pchat[q]
         /\ ppc[p] \in {"build", "oracle", "tools"}
         /\ ppc[q] = "lock") => mu = 0

\* in the list m every assistant message that requests tools is directly
\* followed by the results of its calls, one per call and in their order
C28_Paired(m) ==
    \A k \in 1..Len(m) :
        (m[k].Role = "assistant" /\ m[k].ToolCalls # NoCalls) =>
            /\ k + Len(m[k].ToolCalls) <= Len(m)
            /\ \A c \in 1..Len(m[k].ToolCalls) :
                  /\ m[k + c].Role = "tool"
                  /\ m[k + c].ToolCallID = m[k].ToolCalls[c].ID

\* C28: with two invocations at once on one chat, in every list submitted to
\* the oracle each assistant message that requests tools is still directly
\* followed by exactly its own results.
C28_SnapshotsPaired ==
    \A p \in Procs : ppc[p] = "oracle" => C28_Paired(psnap[p])

\* the command matches a pattern of the deny list
C23_Denied(command) == \E pat \in dangerPatterns : MatchString(pat, command, TRUE)

\* the cwd names something that exists and lies outside the workspace, or
\* leaves the workspace by its ".." elements
C23_Outside(cwd) ==
    /\ cwd # <<>>
    /\ LET abs == IF IsAbs(cwd) THEN Clean(Tail(cwd)) ELSE Clean(mainWorkspace \o cwd)
       IN  \/ ~Inside(mainWorkspace, abs)
           \/ Lstat(links, files, abs) /\ ~Inside(mainWorkspace, EvalSymlinks(links, abs))

C30_ReadAfterWrite ==
    [][(/\ last.tool = "write_file"
        /\ last.err = NoText
        /\ last'.tool = "read_file"
        /\ last'.path = last.path
        /\ last'.agent = last.agent) =>
            (last'.err = NoText /\ last'.result = ReadResult(last.content))]_vars

====
